---- MODULE Spec2Model ----
(***************************************************************************)
(* A model of ncempy/io/mrc.py: the MRC reader (class fileMRC, mrcReader)  *)
(* and the MRC writer (mrcWriter).  The file on disk is a sequence of      *)
(* bytes; header words and samples are encoded to and decoded from those   *)
(* bytes the way numpy's fromfile / file.write do on a little-endian       *)
(* machine.                                                                *)
(***************************************************************************)
EXTENDS Integers, Sequences, FiniteSets, TLC

(***************************************************************************)
(* Bounds of the model.                                                    *)
(***************************************************************************)
\* every axis of a written stack has 1..MaxDim elements
MaxDim == 2
\* number of different sample fillings tried per stack shape and dtype
MaxSeed == 2

(***************************************************************************)
(* Sequences and small arithmetic.                                         *)
(***************************************************************************)
RECURSIVE Pow2(_)
Pow2(n) == IF n <= 0 THEN 1 ELSE 2 * Pow2(n - 1)

Abs(n) == IF n < 0 THEN -n ELSE n

\* python's s[::-1]
Reverse(s) == [i \in 1..Len(s) |-> s[Len(s) + 1 - i]]

RECURSIVE Prod(_)
\* numpy.prod of a shape
Prod(s) == IF s = <<>> THEN 1 ELSE Head(s) * Prod(Tail(s))

RECURSIVE Flatten(_)
\* concatenation of a sequence of byte sequences
Flatten(ss) == IF ss = <<>> THEN <<>> ELSE Head(ss) \o Flatten(Tail(ss))

\* python's s[a:b] on a sequence (0-based, b exclusive, clipped to the length)
Slice(s, a, b) ==
    LET hi == IF b < Len(s) THEN b ELSE Len(s)
    IN  IF a >= hi THEN <<>> ELSE [i \in 1..(hi - a) |-> s[a + i]]

(***************************************************************************)
(* Integer sample and header word codecs (little endian, two's complement).*)
(***************************************************************************)
\* the bytes of an unsigned value below 2^(8n)
RECURSIVE UBytes(_, _)
UBytes(u, n) == IF n = 0 THEN <<>> ELSE <<u % 256>> \o UBytes(u \div 256, n - 1)

I8Bytes(v)  == <<v % 256>>
I16Bytes(v) == UBytes(v % 65536, 2)
U16Bytes(v) == UBytes(v % 65536, 2)
\* an int32: the low three bytes, then the high byte carrying the sign
I32Bytes(v) == UBytes(v % 16777216, 3) \o <<(v \div 16777216) % 256>>

I8FromBytes(b)  == IF b[1] >= 128 THEN b[1] - 256 ELSE b[1]
U16FromBytes(b) == b[1] + 256 * b[2]
I16FromBytes(b) == IF b[2] >= 128 THEN b[1] + 256 * (b[2] - 256)
                   ELSE b[1] + 256 * b[2]
I32FromBytes(b) ==
    b[1] + 256 * b[2] + 65536 * b[3]
    + 16777216 * (IF b[4] >= 128 THEN b[4] - 256 ELSE b[4])

(***************************************************************************)
(* Floating point values.  A finite value is man * 2^exp * 10^e10 with man *)
(* odd (or zero); e10 is nonzero only for the product with the python      *)
(* float 1e10, which is kept exact.  float32 rounding (24 significant      *)
(* bits, round to nearest even) is applied where numpy produces a float32. *)
(***************************************************************************)
RECURSIVE Canon(_, _)
Canon(man, exp) ==
    IF man = 0 THEN [cls |-> "fin", man |-> 0, exp |-> 0, e10 |-> 0]
    ELSE IF man % 2 = 0 THEN Canon(man \div 2, exp + 1)
    ELSE [cls |-> "fin", man |-> man, exp |-> exp, e10 |-> 0]

FInf(neg) == [cls |-> "inf", man |-> IF neg THEN -1 ELSE 1, exp |-> 0, e10 |-> 0]
FNaN == [cls |-> "nan", man |-> 0, exp |-> 0, e10 |-> 0]
FZero == Canon(0, 0)
\* 1.0, as produced by numpy.ones and by the literal 1.
FOne == Canon(1, 0)

RECURSIVE ILog2(_, _)
\* floor(log2(p/q)) for p, q > 0
ILog2(p, q) ==
    IF p >= 2 * q THEN 1 + ILog2(p, 2 * q)
    ELSE IF p < q THEN ILog2(2 * p, q) - 1
    ELSE 0

RECURSIVE LongDiv(_, _, _, _)
\* n more quotient bits of r/b (r < b): <<quotient, remainder>>
LongDiv(r, b, n, acc) ==
    IF n = 0 THEN <<acc, r>>
    ELSE IF 2 * r >= b THEN LongDiv(2 * r - b, b, n - 1, 2 * acc + 1)
    ELSE LongDiv(2 * r, b, n - 1, 2 * acc)

\* d = <<quotient, remainder>> of a division by b, rounded to nearest even
RoundUp(d, b) ==
    IF 2 * d[2] > b \/ (2 * d[2] = b /\ d[1] % 2 = 1) THEN d[1] + 1 ELSE d[1]

\* a 24-bit mantissa M that rounding may have carried to 2^24, at 2^k
Renorm(M, k) == IF M = 16777216 THEN <<8388608, k - 22>> ELSE <<M, k - 23>>

\* a/b with b <= a < 2b, at 2^k
RoundScaled(a, b, k) == Renorm(RoundUp(LongDiv(a - b, b, 23, 1), b), k)

\* p/q with k = floor(log2(p/q))
RoundAt(p, q, k) ==
    IF k >= 0 THEN RoundScaled(p, q * Pow2(k), k) ELSE RoundScaled(p * Pow2(-k), q, k)

\* p/q (p, q > 0) rounded to 24 significant bits, nearest even: <<M, e>>
\* with 2^23 <= M < 2^24 and value M * 2^e
RoundRat(p, q) == RoundAt(p, q, ILog2(p, q))

\* the float with mantissa r[1] at 2^(r[2] + sh), negated when neg
Signed(r, neg, sh) == Canon(IF neg THEN -r[1] ELSE r[1], r[2] + sh)

\* numpy.float32 of the rational p/q, scaled by 2^sh
F32OfRat(p, q, sh) ==
    IF p = 0 THEN FZero ELSE Signed(RoundRat(Abs(p), q), p < 0, sh)

\* numpy.float32 of an integer
F32OfInt(n) == F32OfRat(n, 1, 0)

Negated(r, neg) == IF neg THEN [r EXCEPT !.man = -@] ELSE r

\* float32 division x / y
F32Div(x, y) ==
    IF x.cls = "nan" \/ y.cls = "nan" THEN FNaN
    ELSE IF x.cls = "inf" THEN (IF y.cls = "inf" THEN FNaN
                                ELSE FInf((x.man < 0) # (y.man < 0)))
    ELSE IF y.cls = "inf" THEN FZero
    ELSE IF y.man = 0 THEN (IF x.man = 0 THEN FNaN ELSE FInf(x.man < 0))
    ELSE IF x.man = 0 THEN FZero
    ELSE Negated(F32OfRat(Abs(x.man), Abs(y.man), x.exp - y.exp),
                 (x.man < 0) # (y.man < 0))

\* x * 1e10 with x a float32 scalar and 1e10 a python float
Times1e10(x) == IF x.cls = "fin" /\ x.man # 0 THEN [x EXCEPT !.e10 = @ + 10] ELSE x

\* the value is zero (numpy's truth value of an element)
FIsZero(x) == x.cls = "fin" /\ x.man = 0

\* a < b for finite values without decimal scaling
FLess(a, b) ==
    LET m == IF a.exp < b.exp THEN a.exp ELSE b.exp
    IN  a.man * Pow2(a.exp - m) < b.man * Pow2(b.exp - m)

RECURSIVE TopBit(_)
\* position of the highest set bit of m > 0
TopBit(m) == IF m < 2 THEN 0 ELSE 1 + TopBit(m \div 2)

\* the bytes of sign s (0 or 128), biased exponent E and mantissa M
F32Fields(M, E, s) ==
    <<M % 256, (M \div 256) % 256,
      ((E % 2) * 128) + ((M \div 65536) % 128),
      s + (E \div 2)>>

\* the bytes of a normal number with odd mantissa m whose top bit is t
F32Normal(m, t, exp, neg) ==
    F32Fields(m * Pow2(23 - t), exp + t + 127, IF neg THEN 128 ELSE 0)

\* the four bytes of a float32 (normal numbers, zero, inf, nan)
F32Bytes(x) ==
    IF x.cls = "nan" THEN <<0, 0, 192, 127>>
    ELSE IF x.cls = "inf" THEN <<0, 0, 128, IF x.man < 0 THEN 255 ELSE 127>>
    ELSE IF x.man = 0 THEN <<0, 0, 0, 0>>
    ELSE F32Normal(Abs(x.man), TopBit(Abs(x.man)), x.exp, x.man < 0)

\* the float32 with sign neg, biased exponent E and fraction frac
F32OfFields(neg, E, frac) ==
    IF E = 255 THEN (IF frac = 0 THEN FInf(neg) ELSE FNaN)
    ELSE IF E = 0 THEN Canon(IF neg THEN -frac ELSE frac, -149)
    ELSE Canon(IF neg THEN -(8388608 + frac) ELSE 8388608 + frac, E - 150)

\* the float32 held by four bytes
F32FromBytes(b) ==
    F32OfFields(b[4] >= 128, ((b[4] % 128) * 2) + (b[3] \div 128),
                b[1] + (256 * b[2]) + (65536 * (b[3] % 128)))

(***************************************************************************)
(* numpy arrays handed to mrcWriter.  elems are the samples in logical     *)
(* (C, last index fastest) order; order says how they lie in memory.       *)
(***************************************************************************)
SupportedDTypes == {"int8", "int16", "uint16", "float32"}
DTypes == SupportedDTypes \cup {"float64"}

IsFloatDType(dt) == dt \in {"float32", "float64"}

\* sample values used to fill the arrays, per dtype
SampleVals(dt) ==
    CASE dt = "int8"   -> <<-128, 127, -1, 0, 1>>
      [] dt = "int16"  -> <<-32768, 256, 32767, -1, 0>>
      [] dt = "uint16" -> <<65535, 255, 0, 32768, 1>>
      [] OTHER         -> <<F32OfRat(9, 2, 0), F32OfInt(-2), FZero,
                            F32OfRat(1, 8, 0), F32OfInt(7)>>

\* the n samples of filling number seed
Elems(dt, n, seed) ==
    [k \in 1..n |-> SampleVals(dt)[((seed + k - 1) % Len(SampleVals(dt))) + 1]]

\* shapes with 1 to 4 axes
Shapes == UNION {[1..d -> 1..MaxDim] : d \in 1..4}

\* the 2x2x2 float32 array with the values 1..8
RampStack ==
    [shape |-> <<2, 2, 2>>, dtype |-> "float32", order |-> "C",
     elems |-> [k \in 1..8 |-> F32OfInt(k)]]

Stacks ==
    {[shape |-> sh, dtype |-> dt, order |-> o, elems |-> Elems(dt, Prod(sh), sd)] :
        sh \in Shapes, dt \in DTypes, o \in {"C", "F"}, sd \in 0..(MaxSeed - 1)}
    \cup {RampStack}

\* pixel sizes in Angstroms: (1.5, 2.0, 0.25)
PixelSizes == {<<F32OfRat(3, 2, 0), F32OfInt(2), F32OfRat(1, 4, 0)>>}

RECURSIVE FtoC(_, _)
\* the C-order offset of the sample at Fortran-order memory offset j
FtoC(j, shape) ==
    IF shape = <<>> THEN 0
    ELSE (j % Head(shape)) * Prod(Tail(shape)) + FtoC(j \div Head(shape), Tail(shape))

\* the samples in the order they lie in memory
MemElems(stack) ==
    IF stack.order = "C" THEN stack.elems
    ELSE [j \in 1..Len(stack.elems) |-> stack.elems[FtoC(j - 1, stack.shape) + 1]]

\* the contiguity test left out
CContiguous_Always(stack) == TRUE

\* stack.flags['C_CONTIGUOUS']: axes of length 1 do not count
CContiguous(stack) ==
    \/ stack.order = "C"
    \/ Cardinality({i \in 1..Len(stack.shape) : stack.shape[i] > 1}) <= 1

SampleBytes(dt, v) ==
    CASE dt = "int8"    -> I8Bytes(v)
      [] dt = "int16"   -> I16Bytes(v)
      [] dt = "uint16"  -> U16Bytes(v)
      [] OTHER          -> F32Bytes(v)

ItemSize(dt) ==
    CASE dt = "int8" -> 1 [] dt = "int16" -> 2 [] dt = "uint16" -> 2 [] OTHER -> 4

\* the bytes of a run of samples
SamplesBytes(dt, vs) == Flatten([k \in 1..Len(vs) |-> SampleBytes(dt, vs[k])])

\* fid.write(stack): the array's memory as it lies
StackBuffer(stack) == SamplesBytes(stack.dtype, MemElems(stack))

\* fid.write(np.ascontiguousarray(stack)): the samples in C order
ContiguousBuffer(stack) == SamplesBytes(stack.dtype, stack.elems)

\* smallest exponent among the samples of a float array
MinExp(vs) ==
    CHOOSE e \in {vs[k].exp : k \in 1..Len(vs)} : \A k \in 1..Len(vs) : vs[k].exp >= e

RECURSIVE SumSeq(_)
SumSeq(ns) == IF ns = <<>> THEN 0 ELSE Head(ns) + SumSeq(Tail(ns))

\* the first sample taken for the minimum
StackMin_First(stack) ==
    IF IsFloatDType(stack.dtype) THEN stack.elems[1] ELSE F32OfInt(stack.elems[1])

\* np.float32(np.min(stack))
StackMin(stack) ==
    LET vs == stack.elems
    IN  IF IsFloatDType(stack.dtype)
        THEN CHOOSE v \in {vs[k] : k \in 1..Len(vs)} :
                 \A k \in 1..Len(vs) : ~FLess(vs[k], v)
        ELSE F32OfInt(CHOOSE v \in {vs[k] : k \in 1..Len(vs)} :
                 \A k \in 1..Len(vs) : vs[k] >= v)

\* np.float32(np.max(stack))
StackMax(stack) ==
    LET vs == stack.elems
    IN  IF IsFloatDType(stack.dtype)
        THEN CHOOSE v \in {vs[k] : k \in 1..Len(vs)} :
                 \A k \in 1..Len(vs) : ~FLess(v, vs[k])
        ELSE F32OfInt(CHOOSE v \in {vs[k] : k \in 1..Len(vs)} :
                 \A k \in 1..Len(vs) : vs[k] <= v)

\* the mean of float samples, m being their smallest exponent
FloatMean(vs, m) ==
    F32OfRat(SumSeq([k \in 1..Len(vs) |-> vs[k].man * Pow2(vs[k].exp - m)]), Len(vs), m)

\* np.float32(np.mean(stack)): the sum is exact for the sample values used,
\* so the quotient is rounded once
StackMean(stack) ==
    IF IsFloatDType(stack.dtype)
    THEN FloatMean(stack.elems, MinExp(stack.elems))
    ELSE F32OfRat(SumSeq(stack.elems), Len(stack.elems), 0)

\* np.float32(x * n) for a pixel size x and an axis length n
F32Scaled(x, n) == F32OfRat(x.man * n, 1, x.exp)

(***************************************************************************)
(* Files.  A file is its byte sequence; byte offset k is element k+1.      *)
(***************************************************************************)
Zeros(n) == [i \in 1..n |-> 0]

\* the file after writing bytes bs at offset pos (a gap is filled with zeros)
WriteAt(file, pos, bs) ==
    LET before == IF pos <= Len(file) THEN SubSeq(file, 1, pos)
                  ELSE file \o Zeros(pos - Len(file))
        after  == SubSeq(file, pos + Len(bs) + 1, Len(file))
    IN  before \o bs \o after

\* numpy.fromfile(fid, dtype, count) at offset pos: the byte groups of the
\* complete items available, at most count of them
ReadItems(file, pos, size, count) ==
    LET avail == IF pos >= Len(file) THEN 0 ELSE (Len(file) - pos) \div size
        n     == IF count < avail THEN count ELSE avail
    IN  [k \in 1..n |-> [j \in 1..size |-> file[pos + (k - 1) * size + j]]]

DecodeI32(g) == [k \in 1..Len(g) |-> I32FromBytes(g[k])]
DecodeF32(g) == [k \in 1..Len(g) |-> F32FromBytes(g[k])]

ReadI32(file, pos, count) == DecodeI32(ReadItems(file, pos, 4, count))

ReadF32(file, pos, count) == DecodeF32(ReadItems(file, pos, 4, count))

(***************************************************************************)
(* mrcWriter.                                                              *)
(***************************************************************************)
HeaderSize == 1024
MarkerOffset == 212

\* a file object: the file's bytes and the position of the next write
Put(h, bs) == [file |-> WriteAt(h.file, h.pos, bs), pos |-> h.pos + Len(bs)]
\* a seek that leaves the position where it is
Seek_Stay(h, p) == h

\* fid.seek(p, 0)
Seek(h, p) == [h EXCEPT !.pos = p]

\* the dimension test left out
TooManyDimensions_Never(stack) == FALSE

\* len(stack.shape) > 3
TooManyDimensions(stack) == Len(stack.shape) > 3

\* the MRC mode with every other dtype written as 32-bit reals
MRCModeOf_Default(dt) ==
    IF dt = "uint16" THEN 6
    ELSE IF dt = "int16" THEN 1
    ELSE IF dt = "int8" THEN 0
    ELSE 2

\* header1[3]: the MRC mode of the array's dtype, -1 when the dtype is none
\* of the four tested
MRCModeOf(dt) ==
    IF dt = "float32" THEN 2
    ELSE IF dt = "uint16" THEN 6
    ELSE IF dt = "int16" THEN 1
    ELSE IF dt = "int8" THEN 0
    ELSE -1

\* header1 with the axis lengths written in the array's own order
Header1_ShapeOrder(stack) ==
    <<stack.shape[1], stack.shape[2], stack.shape[3], MRCModeOf(stack.dtype),
      0, 0, 0, stack.shape[1], stack.shape[2], stack.shape[3]>>

\* header1: columns, rows, sections, mode, three zeros, mx, my, mz
Header1(stack) ==
    <<stack.shape[3], stack.shape[2], stack.shape[1], MRCModeOf(stack.dtype),
      0, 0, 0, stack.shape[3], stack.shape[2], stack.shape[1]>>

I32sBytes(ws) == Flatten([k \in 1..Len(ws) |-> I32Bytes(ws[k])])
F32sBytes(xs) == Flatten([k \in 1..Len(xs) |-> F32Bytes(xs[k])])

\* the endianness stamp written at byte 212
Marker == <<68, 65, 0, 0>>

\* the data block written at byte 1024
DataBlock(stack, forceWrite) ==
    IF forceWrite THEN ContiguousBuffer(stack) ELSE StackBuffer(stack)

\* the file after the complete write sequence of a 3-d array
WriteSequence(stack, pixelSize, forceWrite) ==
    LET h0 == Seek(Put([file |-> <<>>, pos |-> 0], Zeros(HeaderSize)), 0)
        h1 == Put(h0, I32sBytes(Header1(stack)))
        h2 == Put(h1, F32sBytes(<<F32Scaled(pixelSize[3], stack.shape[3]),
                                  F32Scaled(pixelSize[2], stack.shape[2]),
                                  F32Scaled(pixelSize[1], stack.shape[1])>>))
        h3 == Put(h2, F32sBytes(<<F32OfInt(90), F32OfInt(90), F32OfInt(90)>>))
        h4 == Put(h3, I32sBytes(<<1, 2, 3>>))
        h5 == Put(h4, F32sBytes(<<StackMin(stack), StackMax(stack), StackMean(stack)>>))
        h6 == Put(Seek(h5, MarkerOffset), Marker)
        h7 == Put(Seek(h6, HeaderSize), DataBlock(stack, forceWrite))
    IN  h7.file

\* what a call of mrcWriter leaves behind: the file, the returned value or the
\* exception raised, and the state of the file object it opened
WriterOutcome(stack, pixelSize, forceWrite) ==
    IF TooManyDimensions(stack)
    THEN [file |-> <<>>, status |-> "returned", ret |-> 0, exc |-> "", fid |-> "open"]
    ELSE IF ~CContiguous(stack)
    THEN [file |-> <<>>, status |-> "returned", ret |-> 0, exc |-> "", fid |-> "open"]
    ELSE IF Len(stack.shape) < 3
    THEN [file |-> Zeros(HeaderSize), status |-> "raised", ret |-> -1,
          exc |-> "IndexError", fid |-> "open"]
    ELSE IF MRCModeOf(stack.dtype) = -1
    THEN [file |-> Zeros(HeaderSize), status |-> "returned", ret |-> 0, exc |-> "",
          fid |-> "open"]
    ELSE [file |-> WriteSequence(stack, pixelSize, forceWrite), status |-> "returned",
          ret |-> 1, exc |-> "", fid |-> "closed"]

(***************************************************************************)
(* MRC files offered to the reader.                                        *)
(***************************************************************************)
Permutations3 ==
    {<<1, 2, 3>>, <<1, 3, 2>>, <<2, 1, 3>>, <<2, 3, 1>>, <<3, 1, 2>>, <<3, 2, 1>>}

\* mode words found in files: the four image modes, the two complex modes
\* and one undefined mode
FileModes == {0, 1, 2, 3, 4, 6, 7}

FileDims == {<<1, 2, 3>>}

FileGrids == {<<0, 0, 0>>, <<1, 2, 3>>, <<0, 2, 4>>}

\* cell lengths: all zero, (3.0, 5.0, 1.5), (0, 1.0, 0)
FileVolumes ==
    {<<FZero, FZero, FZero>>,
     <<F32OfInt(3), F32OfInt(5), F32OfRat(3, 2, 0)>>,
     <<FZero, FOne, FZero>>}

\* values of the second word of the extra block
FileExtra1 == {0, 15, 60, -4}

\* pixel sizes of the FEI block in metres: 1e-10 as a float32
FilePixelSizes == {F32FromBytes(<<255, 230, 219, 46>>)}

\* the 15 floats of an FEI block with the given pixel size
FEIBlock(pixel) == [k \in 1..15 |-> IF k = 12 THEN pixel ELSE F32OfInt(k)]

\* the dtype stored under a mode word; modes the reader does not know get bytes
FileDType(mode) ==
    CASE mode = 0 -> "int8" [] mode = 1 -> "int16" [] mode = 2 -> "float32"
      [] mode = 6 -> "uint16" [] OTHER -> "int8"

MakeFile(dims, mode, grid, vol, axis, extra1, pixel) ==
    LET words == dims \o <<mode, 0, 0, 0>> \o grid
        extra == [k \in 1..34 |-> IF k = 2 THEN extra1 ELSE 0]
        head  == I32sBytes(words)
                 \o F32sBytes(vol \o <<F32OfInt(90), F32OfInt(90), F32OfInt(90)>>)
                 \o I32sBytes(axis \o <<0, 0, 0>> \o extra)
        ext   == IF extra1 = 0 THEN <<>> ELSE F32sBytes(FEIBlock(pixel))
        data  == SamplesBytes(FileDType(mode), Elems(FileDType(mode), Prod(dims), 0))
    IN  WriteAt(Zeros(HeaderSize), 0, head) \o ext \o data

Files ==
    {MakeFile(d, m, g, v, a, e, p) :
        d \in FileDims, m \in FileModes, g \in FileGrids, v \in FileVolumes,
        a \in Permutations3, e \in FileExtra1, p \in FilePixelSizes}

(***************************************************************************)
(* class fileMRC.                                                          *)
(***************************************************************************)
\* _getMRCType falling back to int8 for a mode it does not know
_getMRCType_Default(dataType) ==
    IF dataType = 1 THEN "int16"
    ELSE IF dataType = 2 THEN "float32"
    ELSE IF dataType = 6 THEN "uint16"
    ELSE "int8"

\* _getMRCType: the numpy type of a mode word; "unbound" stands for the local
\* variable Type never having been assigned when it is returned
_getMRCType(dataType) ==
    IF dataType = 0 THEN "int8"
    ELSE IF dataType = 1 THEN "int16"
    ELSE IF dataType = 2 THEN "float32"
    ELSE IF dataType = 6 THEN "uint16"
    ELSE "unbound"

\* a.any() == 0 for a numpy array a of integers
NoneNonzero(a) == \A i \in 1..Len(a) : a[i] = 0
\* a.any() == 0 for a numpy array a of floats
NoneNonzeroF(a) == \A i \in 1..Len(a) : FIsZero(a[i])

\* the default voxel size selected only when both volume and grid are zero
ZeroVolumeAndGrid(volumeSize, gridSize) ==
    NoneNonzeroF(volumeSize) /\ NoneNonzero(gridSize)

\* the test that selects the default voxel size
ZeroVolumeOrGrid(volumeSize, gridSize) ==
    NoneNonzeroF(volumeSize) \/ NoneNonzero(gridSize)

\* python's a[i] on a sequence of length n: the 1-based position, 0 when out
\* of range
PyIndex(i, n) == IF i >= 0 /\ i < n THEN i + 1 ELSE IF i < 0 /\ i >= -n THEN n + i + 1 ELSE 0

\* the shape taken from dataSize without applying the axis order
ShapeOf_NoPermutation(dataSize, axisOrientations) == dataSize

\* [self.dataSize[x-1] for x in self.axisOrientations]
ShapeOf(dataSize, axisOrientations) ==
    [k \in 1..Len(axisOrientations) |->
        dataSize[PyIndex(axisOrientations[k] - 1, Len(dataSize))]]

\* the indices x-1 are all within dataSize
ShapeIndexable(dataSize, axisOrientations) ==
    \A k \in 1..Len(axisOrientations) :
        PyIndex(axisOrientations[k] - 1, Len(dataSize)) # 0

\* the voxel size derived from the header: ones, or volume over grid
HeaderVoxelSize(volumeSize, gridSize) ==
    IF ZeroVolumeOrGrid(volumeSize, gridSize)
    THEN <<FOne, FOne, FOne>>
    ELSE [i \in 1..Len(volumeSize) |-> F32Div(volumeSize[i], F32OfInt(gridSize[i]))]

\* the dictionary FEIinfo built from the 15 floats of the FEI block
FEIinfoOf(v) ==
    [a_tilt |-> v[1], b_tilt |-> v[2], x_stage |-> v[3], y_stage |-> v[4],
     z_stage |-> v[5], x_shift |-> v[6], y_shift |-> v[7], defocus |-> v[8],
     exposure_time |-> v[9], mean |-> v[10], tilt_axis |-> v[11],
     pixel_size |-> v[12], magnification |-> v[13], voltage |-> v[14],
     unknown |-> v[15]]

\* the FEI override leaving the first voxel size as derived from the header
FEIVoxelSize_KeepFirst(voxelSize, FEIinfo) ==
    [voxelSize EXCEPT ![2] = Times1e10(FEIinfo.pixel_size),
                      ![3] = Times1e10(FEIinfo.pixel_size)]

\* the voxel size after the FEI block has been read
FEIVoxelSize(voxelSize, FEIinfo) ==
    [voxelSize EXCEPT ![1] = FOne,
                      ![2] = Times1e10(FEIinfo.pixel_size),
                      ![3] = Times1e10(FEIinfo.pixel_size)]

\* self.dataOffset
DataOffsetOf(extra) == HeaderSize + extra[2]

\* the object after __init__ with no attribute of parseHeader assigned
NewFileMRC(fid) ==
    [fid |-> fid, attrs |-> {}, dataSize |-> <<>>, mrcType |-> 0, dataType |-> "",
     gridSize |-> <<>>, volumeSize |-> <<>>, voxelSize |-> <<>>, cellAngles |-> <<>>,
     axisOrientations |-> <<>>, Shape |-> <<>>, minMaxMean |-> <<>>, extra |-> <<>>,
     dataOffset |-> 0, FEIread |-> FALSE,
     dataOut |-> [filename |-> "a.mrc"]]

\* The reads of parseHeader.  The header is read in one forward pass; a read
\* that comes up short leaves the file at its end, so that every later read is
\* empty, which is also what a read at the fixed offset gives.
Head1(file) == ReadI32(file, 0, 10)
Head2(file) == ReadF32(file, 40, 6)
AxisWords(file) == ReadI32(file, 64, 3)
MinMaxMeanWords(file) == ReadI32(file, 76, 3)
ExtraWords(file) == ReadI32(file, 88, 34)
\* after self.fid.seek(1024)
FEIValues(file) == ReadF32(file, HeaderSize, 15)

\* the object after self.dataSize = head1[0:3]
AfterDataSize(o, head1) ==
    [o EXCEPT !.dataSize = Slice(head1, 0, 3), !.attrs = @ \cup {"dataSize"}]

\* the object after self.mrcType = head1[3]
AfterMrcType(o, head1) ==
    [AfterDataSize(o, head1) EXCEPT !.mrcType = head1[4], !.attrs = @ \cup {"mrcType"}]

\* the object after dataType, gridSize and volumeSize are assigned
AfterVolume(o, head1, head2) ==
    [AfterMrcType(o, head1) EXCEPT
        !.dataType = _getMRCType(head1[4]),
        !.gridSize = Slice(head1, 7, 10),
        !.volumeSize = Slice(head2, 0, 3),
        !.attrs = @ \cup {"dataType", "gridSize", "volumeSize"}]

\* the object after voxelSize, cellAngles and axisOrientations are assigned
AfterAxis(o, head1, head2, axis) ==
    [AfterVolume(o, head1, head2) EXCEPT
        !.voxelSize = HeaderVoxelSize(Slice(head2, 0, 3), Slice(head1, 7, 10)),
        !.cellAngles = Slice(head2, 3, 6),
        !.axisOrientations = axis,
        !.attrs = @ \cup {"voxelSize", "cellAngles", "axisOrientations"}]

\* the seven [::-1] of parseHeader
Reversed(o) ==
    [o EXCEPT !.dataSize = Reverse(@), !.gridSize = Reverse(@),
              !.volumeSize = Reverse(@), !.voxelSize = Reverse(@),
              !.cellAngles = Reverse(@), !.axisOrientations = Reverse(@),
              !.Shape = Reverse(@)]

\* the object after Shape, minMaxMean and extra are assigned and the metadata
\* is reversed
AfterReversal(o, head1, head2, axis, mmm, extra) ==
    Reversed([AfterAxis(o, head1, head2, axis) EXCEPT
                 !.Shape = ShapeOf(Slice(head1, 0, 3), axis),
                 !.minMaxMean = mmm,
                 !.extra = extra,
                 !.attrs = @ \cup {"Shape", "minMaxMean", "extra"}])

\* the object o after the FEI block, if there is one, has been read
AfterFEI(o, fei) ==
    IF o.extra[2] # 0
    THEN [o EXCEPT !.voxelSize = FEIVoxelSize(@, FEIinfoOf(fei)), !.FEIread = TRUE]
    ELSE o

\* the dictionary built at the end of parseHeader
DataOutOf(o, fei) ==
    IF o.extra[2] # 0
    THEN [voxelSize |-> o.voxelSize, axisOrientations |-> o.axisOrientations,
          cellAngles |-> o.cellAngles, FEIinfo |-> FEIinfoOf(fei)]
    ELSE [voxelSize |-> o.voxelSize, axisOrientations |-> o.axisOrientations,
          cellAngles |-> o.cellAngles]

\* the object o after dataOffset and dataOut are assigned
Finished(o, fei) ==
    [o EXCEPT !.dataOffset = DataOffsetOf(o.extra),
              !.attrs = @ \cup {"dataOffset"},
              !.dataOut = DataOutOf(o, fei)]

\* parseHeader on what the reads returned: the object afterwards and the
\* exception that ended the call ("" when it returned 1)
ParseFields(o, head1, head2, axis, mmm, extra, fei) ==
    IF o.fid = "None" THEN [obj |-> o, exc |-> "TypeError"]
    ELSE IF Len(head1) < 4
         THEN [obj |-> AfterDataSize(o, head1), exc |-> "IndexError"]
    ELSE IF _getMRCType(head1[4]) = "unbound"
         THEN [obj |-> AfterMrcType(o, head1), exc |-> "UnboundLocalError"]
    ELSE IF /\ ~ZeroVolumeOrGrid(Slice(head2, 0, 3), Slice(head1, 7, 10))
            /\ Len(Slice(head2, 0, 3)) # Len(Slice(head1, 7, 10))
         THEN [obj |-> AfterVolume(o, head1, head2), exc |-> "ValueError"]
    ELSE IF ~ShapeIndexable(Slice(head1, 0, 3), axis)
         THEN [obj |-> AfterAxis(o, head1, head2, axis), exc |-> "IndexError"]
    ELSE IF Len(extra) < 2 \/ (extra[2] # 0 /\ Len(fei) < 15)
         THEN [obj |-> AfterReversal(o, head1, head2, axis, mmm, extra),
               exc |-> "IndexError"]
    ELSE [obj |-> Finished(AfterFEI(AfterReversal(o, head1, head2, axis, mmm, extra),
                                    fei), fei),
          exc |-> ""]

\* parseHeader on the bytes of the open file, read from offset 0
ParseHeaderOutcome(o, file) ==
    ParseFields(o, Head1(file), Head2(file), AxisWords(file), MinMaxMeanWords(file),
                ExtraWords(file), FEIValues(file))

SampleFromBytes(dt, b) ==
    CASE dt = "int8"    -> I8FromBytes(b)
      [] dt = "int16"   -> I16FromBytes(b)
      [] dt = "uint16"  -> U16FromBytes(b)
      [] OTHER          -> F32FromBytes(b)

\* getDataset on the bytes of the open file: the object afterwards and the
\* exception that ended the call ("" when it returned self.dataOut)
GetDatasetOutcome(o, file) ==
    LET g     == ReadItems(file, o.dataOffset, ItemSize(o.dataType), Prod(o.dataSize))
        data1 == [k \in 1..Len(g) |-> SampleFromBytes(o.dataType, g[k])]
        arr   == [shape |-> o.Shape, dtype |-> o.dataType, elems |-> data1]
    IN  IF o.dataOffset < 0 THEN [obj |-> o, exc |-> "OSError"]
        ELSE IF Len(data1) # Prod(o.Shape) THEN [obj |-> o, exc |-> "ValueError"]
        ELSE [obj |-> [o EXCEPT !.dataOut = @ @@ [data |-> arr]], exc |-> ""]

(***************************************************************************)
(* The state: the file a.mrc on disk, the arguments of a pending mrcWriter *)
(* call and what the call left behind, the fileMRC object of a read        *)
(* session (its dataOut is the dictionary the session returns).            *)
(***************************************************************************)
VARIABLES
    \* "write": mrcWriter is called, then the file may be read back;
    \* "read": a given file is read
    mode,
    \* the file exists on disk
    exists,
    \* the bytes of the file on disk
    disk,
    \* the arguments stack, pixelSize, forceWrite of mrcWriter
    call,
    \* the outcome of mrcWriter: status, return value, exception, file object
    w,
    \* the fileMRC object
    f1,
    \* where the read session is, and the exception that ended it
    rd

vars == <<mode, exists, disk, call, w, f1, rd>>

\* the content of a file that is about to be overwritten
OldFile == <<77, 82, 67>>

IdleWriter == [status |-> "idle", ret |-> -1, exc |-> "", fid |-> "none"]

DefaultCall ==
    [stack |-> [shape |-> <<1, 1, 1>>, dtype |-> "int8", order |-> "C",
                elems |-> Elems("int8", 1, 0)],
     pixelSize |-> <<FOne, FOne, FOne>>, forceWrite |-> FALSE]

Init ==
    /\ w = IdleWriter
    /\ f1 = NewFileMRC("None")
    /\ rd = [pc |-> "new", exc |-> ""]
    /\ \/ /\ mode = "write"
          /\ exists = TRUE
          /\ disk = OldFile
          /\ call \in {[stack |-> st, pixelSize |-> px, forceWrite |-> fw] :
                          st \in Stacks, px \in PixelSizes, fw \in BOOLEAN}
       \/ /\ mode = "read"
          /\ call = DefaultCall
          /\ \/ exists = TRUE /\ disk \in Files
             \/ exists = FALSE /\ disk = <<>>

\* mrcWriter(filename, stack, pixelSize, forceWrite)
mrcWriter ==
    /\ mode = "write"
    /\ w.status = "idle"
    /\ LET r == WriterOutcome(call.stack, call.pixelSize, call.forceWrite)
       IN  /\ disk' = r.file
           /\ w' = [status |-> r.status, ret |-> r.ret, exc |-> r.exc, fid |-> r.fid]
    /\ exists' = TRUE
    /\ UNCHANGED <<mode, call, f1, rd>>

\* fileMRC.__init__: open the file for reading; a failure to open is printed
\* and the object is built with fid None
fileMRC_init ==
    /\ rd.pc = "new"
    /\ mode = "read" \/ w.status # "idle"
    /\ f1' = NewFileMRC(IF exists THEN "open" ELSE "None")
    /\ rd' = [rd EXCEPT !.pc = "opened"]
    /\ UNCHANGED <<mode, exists, disk, call, w>>

\* fileMRC.parseHeader
parseHeader ==
    /\ rd.pc = "opened"
    /\ LET r == ParseHeaderOutcome(f1, disk)
       IN  /\ f1' = r.obj
           /\ rd' = [pc |-> IF r.exc = "" THEN "parsed" ELSE "raised", exc |-> r.exc]
    /\ UNCHANGED <<mode, exists, disk, call, w>>

\* fileMRC.getDataset
getDataset ==
    /\ rd.pc = "parsed"
    /\ LET r == GetDatasetOutcome(f1, disk)
       IN  /\ f1' = r.obj
           /\ rd' = [pc |-> IF r.exc = "" THEN "read" ELSE "raised", exc |-> r.exc]
    /\ UNCHANGED <<mode, exists, disk, call, w>>

\* the file object after fileMRC.__del__: close() is called only when
\* self.fid is false
FidAfterDel(fid) == IF fid = "None" THEN "None" ELSE fid

\* fileMRC.__del__, run when the object is deleted (del f1 in mrcReader, or
\* the object going out of scope after an exception)
fileMRC_del ==
    /\ rd.pc \in {"opened", "parsed", "read", "raised"}
    /\ f1' = [f1 EXCEPT !.fid = FidAfterDel(@)]
    /\ rd' = [rd EXCEPT !.pc = "deleted"]
    /\ UNCHANGED <<mode, exists, disk, call, w>>

Next == mrcWriter \/ fileMRC_init \/ parseHeader \/ getDataset \/ fileMRC_del

Spec == Init /\ [][Next]_vars

(***************************************************************************)
(* The header of the file on disk, as laid out in the MRC format: word k   *)
(* is bytes 4k .. 4k+3.  Used to state the properties below.               *)
(***************************************************************************)
DiskWord(k) == I32FromBytes(SubSeq(disk, 4 * k + 1, 4 * k + 4))
DiskFloat(off) == F32FromBytes(SubSeq(disk, off + 1, off + 4))
DiskDims == <<DiskWord(0), DiskWord(1), DiskWord(2)>>
DiskMode == DiskWord(3)
DiskGrid == <<DiskWord(7), DiskWord(8), DiskWord(9)>>
DiskVolume == <<DiskFloat(40), DiskFloat(44), DiskFloat(48)>>
DiskAxisOrder == <<DiskWord(16), DiskWord(17), DiskWord(18)>>
\* word index 1 of the 34-word extra block that starts at byte 88
DiskExtensionWordCount == DiskWord(23)
\* field 12 of the vendor extension at byte 1024
DiskPixelSize == DiskFloat(HeaderSize + 44)

\* parseHeader has returned on a file that holds a full header
Parsed == rd.pc \in {"parsed", "read"} /\ Len(disk) >= HeaderSize

\* mrcWriter has been called and has ended
Written == mode = "write" /\ w.status # "idle"
WriteSucceeded == Written /\ w.status = "returned" /\ w.ret = 1

\* C1: a C-contiguous 3-d array of a supported sample type written by
\* mrcWriter is read back unchanged by parseHeader and getDataset: no error
\* on the way, and the same samples, shape and sample type.
C1_RoundTrip ==
    WriteSucceeded =>
        /\ rd.exc = ""
        /\ rd.pc = "read" =>
            /\ f1.dataOut.data.elems = call.stack.elems
            /\ f1.dataOut.data.shape = call.stack.shape
            /\ f1.dataOut.data.dtype = call.stack.dtype

C1_Witness ==
    /\ WriteSucceeded
    /\ rd.pc = "read"
    /\ call.stack.dtype = "float32"
    /\ call.stack.shape = <<2, 1, 2>>
    /\ f1.dataOut.data.elems = call.stack.elems

\* C2: after parseHeader, dataOffset is 1024 plus four times the extension
\* word count found in the header.
C2_DataOffset ==
    Parsed => f1.dataOffset = HeaderSize + DiskExtensionWordCount * 4

\* C3: a mode word outside {0,1,2,6} ends parseHeader with an error, with no
\* sample type and nothing later assigned; modes 0, 1, 2, 6 give int8, int16,
\* float32, uint16.
C3_UnsupportedType ==
    ("mrcType" \in f1.attrs) =>
        IF DiskMode \in {0, 1, 2, 6}
        THEN /\ "dataType" \in f1.attrs
             /\ f1.dataType = (CASE DiskMode = 0 -> "int8" [] DiskMode = 1 -> "int16"
                                 [] DiskMode = 2 -> "float32" [] OTHER -> "uint16")
        ELSE /\ rd.exc # ""
             /\ rd.pc \in {"raised", "deleted"}
             /\ f1.attrs = {"dataSize", "mrcType"}
             /\ DOMAIN f1.dataOut = {"filename"}

C3_Witness ==
    /\ rd.pc = "raised"
    /\ rd.exc = "UnboundLocalError"
    /\ DiskMode \in {3, 4}

\* C4: for an axis order that is a permutation of 1,2,3 the decoded shape is
\* [dims[axisOrder[i]-1] : i = 0,1,2] reversed, of length 3.
C4_AxisReversal ==
    (Parsed /\ DiskAxisOrder \in Permutations3) =>
        /\ Len(f1.Shape) = 3
        /\ f1.Shape = <<DiskDims[DiskAxisOrder[3]], DiskDims[DiskAxisOrder[2]],
                        DiskDims[DiskAxisOrder[1]]>>

C4_Witness ==
    /\ Parsed
    /\ DiskAxisOrder = <<2, 3, 1>>
    /\ DiskDims = <<1, 2, 3>>
    /\ f1.Shape = <<1, 3, 2>>

AllZero(a) == \A i \in 1..3 : a[i] = 0
AllZeroF(a) == \A i \in 1..3 : FIsZero(a[i])
Ones3 == <<FOne, FOne, FOne>>
\* cellVolume[i] / gridSize[i] elementwise, reversed
ReversedQuotient ==
    <<F32Div(DiskVolume[3], F32OfInt(DiskGrid[3])),
      F32Div(DiskVolume[2], F32OfInt(DiskGrid[2])),
      F32Div(DiskVolume[1], F32OfInt(DiskGrid[1]))>>

\* C5 as stated: all-zero cell volume or all-zero grid size gives voxel size
\* [1,1,1] whatever the other header fields are; otherwise, without a vendor
\* extension, the voxel size is the reversed elementwise quotient.
C5_Original ==
    Parsed =>
        IF AllZeroF(DiskVolume) \/ AllZero(DiskGrid)
        THEN f1.voxelSize = Ones3
        ELSE DiskExtensionWordCount = 0 => f1.voxelSize = ReversedQuotient

\* C5 amended: all-zero cell volume or all-zero grid size gives voxel size
\* [1,1,1] when the extension word count is zero; otherwise, without a vendor
\* extension, the voxel size is the reversed elementwise quotient.
C5_VoxelDefault ==
    (Parsed /\ DiskExtensionWordCount = 0) =>
        IF AllZeroF(DiskVolume) \/ AllZero(DiskGrid)
        THEN f1.voxelSize = Ones3
        ELSE f1.voxelSize = ReversedQuotient

C5_Witness ==
    /\ Parsed
    /\ DiskExtensionWordCount = 0
    /\ AllZero(DiskGrid)
    /\ ~AllZeroF(DiskVolume)
    /\ f1.voxelSize = Ones3

\* C6: a nonzero extension word count makes parseHeader read the 15 floats at
\* byte 1024 and set voxelSize to [1.0, pixel_size*1e10, pixel_size*1e10],
\* pixel_size being the 12th float; with a zero count no extension is read or
\* returned.
C6_VendorOverride ==
    Parsed =>
        IF DiskExtensionWordCount # 0
        THEN /\ f1.FEIread
             /\ f1.voxelSize = <<FOne, Times1e10(DiskPixelSize), Times1e10(DiskPixelSize)>>
             /\ "FEIinfo" \in DOMAIN f1.dataOut
             /\ f1.dataOut.FEIinfo.pixel_size = DiskPixelSize
             /\ f1.dataOut.FEIinfo.a_tilt = DiskFloat(HeaderSize)
             /\ f1.dataOut.FEIinfo.unknown = DiskFloat(HeaderSize + 56)
        ELSE /\ ~f1.FEIread
             /\ "FEIinfo" \notin DOMAIN f1.dataOut

C6_Witness ==
    /\ Parsed
    /\ DiskExtensionWordCount = 15
    /\ ~AllZeroF(DiskVolume) /\ ~AllZero(DiskGrid)
    /\ f1.voxelSize[1] = FOne
    /\ f1.voxelSize[2] = Times1e10(DiskPixelSize)
    /\ f1.voxelSize[2] # ReversedQuotient[2]

\* C7: the file object of a read session is closed once the session's object
\* is deleted, and the file object of mrcWriter is closed once mrcWriter has
\* ended, whichever way it ended.
C7_HandleClosed ==
    /\ (rd.pc = "deleted" /\ exists) => f1.fid = "closed"
    /\ Written => w.fid = "closed"

\* the array's memory is not in row-major, last-axis-fastest order
NonContiguousLayout(stack) ==
    /\ stack.order = "F"
    /\ Cardinality({i \in 1..Len(stack.shape) : stack.shape[i] > 1}) >= 2

\* no byte of the file is nonzero and nothing lies beyond the header
NothingWritten == Len(disk) <= HeaderSize /\ \A i \in 1..Len(disk) : disk[i] = 0

\* C8: writing an array that is not C-contiguous fails and writes no sample
\* data, whatever forceWrite is.
C8_NonContiguousRejected ==
    (Written /\ NonContiguousLayout(call.stack)) =>
        /\ w.status = "returned" /\ w.ret = 0
        /\ NothingWritten

C8_Witness ==
    /\ Written
    /\ NonContiguousLayout(call.stack)
    /\ Len(call.stack.shape) = 3
    /\ call.stack.dtype \in SupportedDTypes
    /\ call.forceWrite
    /\ w.ret = 0

ValidCall ==
    /\ Len(call.stack.shape) = 3
    /\ ~NonContiguousLayout(call.stack)
    /\ call.stack.dtype \in SupportedDTypes

\* the file holds the header of the stack and all of its samples
FileComplete ==
    /\ Len(call.stack.shape) = 3
    /\ Len(disk) = HeaderSize + ItemSize(call.stack.dtype) * Len(call.stack.elems)
    /\ DiskDims = Reverse(call.stack.shape)
    /\ SubSeq(disk, MarkerOffset + 1, MarkerOffset + 4) = Marker
    /\ SubSeq(disk, HeaderSize + 1, Len(disk))
         = SamplesBytes(call.stack.dtype, call.stack.elems)

\* C10: a call of mrcWriter that fails, or that leaves the file without the
\* complete header and samples, does not end with the success result 1.
C10_FailureSignalled ==
    (Written /\ (~ValidCall \/ ~FileComplete)) =>
        ~(w.status = "returned" /\ w.ret = 1)

C10_Witness ==
    /\ Written
    /\ call.stack.dtype = "float64"
    /\ disk = Zeros(HeaderSize)
    /\ w.status = "returned" /\ w.ret = 0

\* the read session has returned the dictionary of getDataset
DatasetReturned == rd.pc = "read"

\* C11: the dictionary returned by fileMRC -> parseHeader -> getDataset holds
\* the sample array under 'stack' and the file name under 'filename', with
\* 'voxelSize' and 'axisOrientations', and 'FEIinfo' when the extension word
\* count is nonzero.
C11_ReturnedKeys ==
    DatasetReturned =>
        /\ {"stack", "filename", "voxelSize", "axisOrientations"}
               \subseteq DOMAIN f1.dataOut
        /\ f1.dataOut.filename = "a.mrc"
        /\ DiskExtensionWordCount # 0 => "FEIinfo" \in DOMAIN f1.dataOut

\* C12: after parseHeader, dataOffset is at least 1024, whatever the
\* extension word count found in the header is.
C12_DataOffsetFloor ==
    Parsed => f1.dataOffset >= HeaderSize

\* the four bytes of the file at byte offset 212
DiskMarker == SubSeq(disk, 213, 216)

\* C13: after a successful mrcWriter call the file has the bytes 68,65,0,0
\* at byte offset 212; the samples written afterwards lie from byte 1024 on
\* and leave them in place.
C13_MarkerAt212 ==
    WriteSucceeded =>
        /\ DiskMarker = <<68, 65, 0, 0>>
        /\ Len(disk) > HeaderSize
        /\ SubSeq(disk, HeaderSize + 1, Len(disk))
             = SamplesBytes(call.stack.dtype, call.stack.elems)

C13_Witness ==
    /\ WriteSucceeded
    /\ call.stack.dtype = "uint16"
    /\ call.stack.shape = <<2, 2, 2>>
    /\ Len(disk) = HeaderSize + 16
    /\ DiskMarker = <<68, 65, 0, 0>>

\* the samples xs of sample type dt as real numbers
AsFloats(dt, xs) ==
    [k \in 1..Len(xs) |-> IF IsFloatDType(dt) THEN xs[k] ELSE F32OfInt(xs[k])]

\* m is one of xs and none of xs is smaller
IsMinOf(m, xs) ==
    /\ \E k \in 1..Len(xs) : xs[k] = m
    /\ \A k \in 1..Len(xs) : ~FLess(xs[k], m)

\* m is one of xs and none of xs is larger
IsMaxOf(m, xs) ==
    /\ \E k \in 1..Len(xs) : xs[k] = m
    /\ \A k \in 1..Len(xs) : ~FLess(m, xs[k])

\* the sum of xs counted in eighths (every sample value used is a multiple
\* of 1/8)
Eighths(xs) == SumSeq([k \in 1..Len(xs) |-> xs[k].man * Pow2(xs[k].exp + 3)])

\* the float32 nearest to the arithmetic mean of xs
MeanOf(xs) == F32OfRat(Eighths(xs), Len(xs), -3)

\* C14: after a successful mrcWriter call the three float32 words at bytes
\* 76..87, right after the axis-order ints at bytes 64..75, are the minimum,
\* the maximum and the mean of all the samples, in that order.
C14_MinMaxMean ==
    WriteSucceeded =>
        /\ DiskAxisOrder = <<1, 2, 3>>
        /\ IsMinOf(DiskFloat(76), AsFloats(call.stack.dtype, call.stack.elems))
        /\ IsMaxOf(DiskFloat(80), AsFloats(call.stack.dtype, call.stack.elems))
        /\ DiskFloat(84) = MeanOf(AsFloats(call.stack.dtype, call.stack.elems))

\* the 2x2x2 float32 array 1..8 gives 1.0, 8.0, 4.5 (as little-endian
\* float32 words) at bytes 76..87
C14_Witness ==
    /\ WriteSucceeded
    /\ call.stack = RampStack
    /\ SubSeq(disk, 77, 88) = <<0, 0, 128, 63, 0, 0, 0, 65, 0, 0, 144, 64>>
    /\ DiskFloat(84) = F32OfRat(9, 2, 0)
====
